---------------------------- MODULE Spec2Model ----------------------------
(***************************************************************************)
(* A model of calculate_contrast.py: the four colour functions             *)
(* (hex_to_rgb, rgb_to_luminance, contrast_ratio, blend_rgba_on_rgb) and   *)
(* the module-level report script that prints four sections of rows.       *)
(*                                                                         *)
(* A Python str is a sequence of one-character strings.  A raised          *)
(* exception is the record Raise; a returned value v is Return(v).         *)
(***************************************************************************)
EXTENDS Integers, Sequences, FiniteSets, TLC

VARIABLES
    colors,     \* the colour table of the script: status key -> hex string
    pc,         \* position of the script
    idx,        \* index (1..4) of the next iteration of the current for loop
    out,        \* what the script has printed so far, one entry per block
    exit,       \* exit code of the interpreter, NoExit while running
    input,      \* the call a function harness makes: [op, ...arguments]
    ret         \* the result of that call, NoRet before it

vars == <<colors, pc, idx, out, exit, input, ret>>
scriptVars == <<colors, pc, idx, out, exit>>
callVars == <<input, ret>>

---------------------------------------------------------------------------
(* Bounds of the model. *)

\* longest string body (after the leading '#' characters) given to hex_to_rgb
MaxLen == 7
\* most leading '#' characters of a string given to hex_to_rgb
MaxHashes == 2
\* alpha values are the decimal literals n/AlphaDen, n in 0..AlphaDen
AlphaDen == 20

---------------------------------------------------------------------------
(* Python values. *)

Raise == [err |-> TRUE]
Return(v) == [err |-> FALSE, val |-> v]

\* a str and a tuple; isinstance(x, str) is decided by the tag
Str(s) == [str |-> TRUE, s |-> s]
Tup(t) == [str |-> FALSE, t |-> t]

Max(a, b) == IF a >= b THEN a ELSE b
Min(a, b) == IF a <= b THEN a ELSE b

---------------------------------------------------------------------------
(* hex_to_rgb *)

HexDigits == <<"0", "1", "2", "3", "4", "5", "6", "7", "8", "9",
               "a", "b", "c", "d", "e", "f">>
UpperDigits == <<"A", "B", "C", "D", "E", "F">>

IsHexDigit(ch) ==
    \/ \E k \in 1..16 : HexDigits[k] = ch
    \/ \E k \in 1..6 : UpperDigits[k] = ch

DigitVal(ch) ==
    IF \E k \in 1..16 : HexDigits[k] = ch
    THEN (CHOOSE k \in 1..16 : HexDigits[k] = ch) - 1
    ELSE (CHOOSE k \in 1..6 : UpperDigits[k] = ch) + 9

\* s.lstrip(ch): every leading ch is removed, not only the first
RECURSIVE lstrip(_, _)
lstrip(s, ch) ==
    IF s # <<>> /\ Head(s) = ch THEN lstrip(Tail(s), ch) ELSE s

\* s.rstrip(ch)
RECURSIVE rstrip(_, _)
rstrip(s, ch) ==
    IF s # <<>> /\ s[Len(s)] = ch THEN rstrip(SubSeq(s, 1, Len(s) - 1), ch) ELSE s

\* the Python slice s[i:j], 0-based, clamped to the string
Slice(s, i, j) == SubSeq(s, Min(i, Len(s)) + 1, Min(j, Len(s)))

\* value of a string of hex digits, most significant first
RECURSIVE DigitsVal(_)
DigitsVal(d) ==
    IF d = <<>> THEN 0
    ELSE 16 * DigitsVal(SubSeq(d, 1, Len(d) - 1)) + DigitVal(d[Len(d)])

\* int(s, 16) for the slices hex_to_rgb makes (at most two characters):
\* surrounding blanks are stripped, one sign is accepted, and what is left
\* must be one or more hex digits.  (A "0x" prefix or a "_" separator needs
\* three characters to be accepted, so neither can be in such a slice.)
int16(s) ==
    LET t == rstrip(lstrip(s, " "), " ")
        signed == t # <<>> /\ Head(t) \in {"+", "-"}
        d == IF signed THEN Tail(t) ELSE t
    IN  IF d = <<>> \/ \E k \in 1..Len(d) : ~IsHexDigit(d[k])
        THEN Raise
        ELSE Return(IF signed /\ Head(t) = "-" THEN 0 - DigitsVal(d) ELSE DigitsVal(d))

\* hex_to_rgb without the lstrip('#') of line 6
hex_to_rgb_keep_hash(hex_color) ==
    LET r == int16(Slice(hex_color, 0, 2))
        g == int16(Slice(hex_color, 2, 4))
        b == int16(Slice(hex_color, 4, 6))
    IN  IF r.err \/ g.err \/ b.err THEN Raise ELSE Return(<<r.val, g.val, b.val>>)

hex_to_rgb(hex_color) ==
    LET h == lstrip(hex_color, "#")
        r == int16(Slice(h, 0, 2))
        g == int16(Slice(h, 2, 4))
        b == int16(Slice(h, 4, 6))
    IN  IF r.err \/ g.err \/ b.err THEN Raise ELSE Return(<<r.val, g.val, b.val>>)

---------------------------------------------------------------------------
(* Python floats (IEEE-754 doubles) as blend_rgba_on_rgb uses them.         *)
(*                                                                         *)
(* Every double that arises there is a non-negative multiple of            *)
(* 2^-FracBits below 2^9 (alpha is 0 or at least 2^-7), so a double is     *)
(* held exactly as the integer value * 2^FracBits, written in four limbs   *)
(* of LimbBits bits, least significant first.  Sums, differences and       *)
(* products are formed exactly and then rounded to Mantissa significant    *)
(* bits, ties to even, which is what the hardware does.                    *)

\* significant bits of a double
Mantissa == 53
\* bits after the binary point
FracBits == 59
LimbBits == 20
LimbBase == 2 ^ LimbBits

\* carries (or borrows) propagated upward; \div and % round toward minus infinity
Norm(x) ==
    LET t2 == x[2] + (x[1] \div LimbBase)
        t3 == x[3] + (t2 \div LimbBase)
        t4 == x[4] + (t3 \div LimbBase)
    IN  <<x[1] % LimbBase, t2 % LimbBase, t3 % LimbBase, t4>>

\* float(k) for an int k in 0..255
FromInt(k) == Norm(<<0, 0, k * 2 ^ (FracBits - 2 * LimbBits), 0>>)

FAddExact(x, y) == Norm(<<x[1] + y[1], x[2] + y[2], x[3] + y[3], x[4] + y[4]>>)
FSubExact(x, y) == Norm(<<x[1] - y[1], x[2] - y[2], x[3] - y[3], x[4] - y[4]>>)
FMulExact(x, k) == Norm(<<x[1] * k, x[2] * k, x[3] * k, x[4] * k>>)

\* x <= y
FLe(x, y) ==
    \/ x[4] < y[4]
    \/ x[4] = y[4] /\ x[3] < y[3]
    \/ x[4] = y[4] /\ x[3] = y[3] /\ x[2] < y[2]
    \/ x[4] = y[4] /\ x[3] = y[3] /\ x[2] = y[2] /\ x[1] <= y[1]

RECURSIVE Bits(_)
Bits(n) == IF n = 0 THEN 0 ELSE 1 + Bits(n \div 2)

BitLen(x) ==
    IF x[4] > 0 THEN 3 * LimbBits + Bits(x[4])
    ELSE IF x[3] > 0 THEN 2 * LimbBits + Bits(x[3])
    ELSE IF x[2] > 0 THEN LimbBits + Bits(x[2])
    ELSE Bits(x[1])

\* The double nearest to the exact value x + (r/d) * 2^-FracBits, 0 <= r < d:
\* the bits below the Mantissa-th are dropped, rounding to nearest, ties to even.
RoundNearestEven(x, r, d) ==
    LET k == Max(BitLen(x) - Mantissa, 0)
        low == x[1] % (2 ^ k)
        twice == 2 * (low * d + r)
        half == (2 ^ k) * d
        odd == (x[1] \div (2 ^ k)) % 2 = 1
        up == twice > half \/ (twice = half /\ odd)
    IN  Norm(<<x[1] - low + (IF up THEN 2 ^ k ELSE 0), x[2], x[3], x[4]>>)

\* quotient and remainder of the exact value by a small integer d
DivMod(x, d) ==
    LET q4 == x[4] \div d
        c3 == (x[4] % d) * LimbBase + x[3]
        c2 == (c3 % d) * LimbBase + x[2]
        c1 == (c2 % d) * LimbBase + x[1]
    IN  [q |-> Norm(<<c1 \div d, c2 \div d, c3 \div d, q4>>), r |-> c1 % d]

\* the double a decimal literal n/d denotes (0.75 is DoubleOf(75, 100))
DoubleOf(n, d) ==
    LET qr == DivMod(FromInt(n), d)
    IN  RoundNearestEven(qr.q, qr.r, d)

\* the float operators +, - and * (an int operand is converted exactly)
FAdd(x, y) == RoundNearestEven(FAddExact(x, y), 0, 1)
FSub(x, y) == RoundNearestEven(FSubExact(x, y), 0, 1)
FMul(k, x) == RoundNearestEven(FMulExact(x, k), 0, 1)

\* round(x) in place of int(x): the nearest integer, halves upward
PyIntRound(x) ==
    (x[3] + 2 ^ (FracBits - 2 * LimbBits - 1)) \div (2 ^ (FracBits - 2 * LimbBits))
        + x[4] * 2 ^ (3 * LimbBits - FracBits)

\* int(x) of a non-negative float: the fraction is cut off
PyInt(x) == x[3] \div (2 ^ (FracBits - 2 * LimbBits)) + x[4] * 2 ^ (3 * LimbBits - FracBits)

---------------------------------------------------------------------------
(* blend_rgba_on_rgb *)

\* the float fg_rgb[c] * alpha + bg_rgb[c] * (1 - alpha)
blend_sum(f, b, alpha) ==
    FAdd(FMul(f, alpha), FMul(b, FSub(FromInt(1), alpha)))

blend_rgba_on_rgb(fg_rgb, bg_rgb, alpha) ==
    LET r == PyInt(blend_sum(fg_rgb[1], bg_rgb[1], alpha))
        g == PyInt(blend_sum(fg_rgb[2], bg_rgb[2], alpha))
        b == PyInt(blend_sum(fg_rgb[3], bg_rgb[3], alpha))
    IN  <<r, g, b>>

---------------------------------------------------------------------------
(* rgb_to_luminance and contrast_ratio.                                    *)
(*                                                                         *)
(* The luminance arithmetic (a division by 255, a power of 2.4) is done in *)
(* fixed point: a float v in [0, 1] is the integer round(v * FixedOne),    *)
(* and every product or quotient is rounded to the nearest unit.           *)

\* the fixed-point integer that stands for 1.0
FixedOne == 20000

\* a / b rounded to the nearest integer, b > 0
DivRound(a, b) == (2 * a + b) \div (2 * b)

\* the product of two fixed-point numbers
MulFix(a, b) == DivRound(a * b, FixedOne)

Pow5(y) == MulFix(MulFix(MulFix(y, y), MulFix(y, y)), y)

\* the largest y in lo..hi with y^5 <= z (Pow5 is monotone)
RECURSIVE Root5(_, _, _)
Root5(z, lo, hi) ==
    IF lo >= hi THEN lo
    ELSE LET mid == (lo + hi + 1) \div 2
         IN  IF Pow5(mid) <= z THEN Root5(z, mid, hi) ELSE Root5(z, lo, mid - 1)

\* x ** 2 in place of x ** 2.4
PowSquare(x) == MulFix(x, x)

\* x ** 2.4 for x in [0, 1], as x^2 * (x^2)^(1/5)
Pow24(x) == MulFix(MulFix(x, x), Root5(MulFix(x, x), 0, FixedOne))

\* adjust(channel) of rgb_to_luminance; 0.03928 is 3928/100000,
\* 12.92 is 1292/100, 0.055 is 55/1000 and 1.055 is 1055/1000
adjust(channel) ==
    LET c == DivRound(channel * FixedOne, 255)
    IN  IF channel * 100000 <= 3928 * 255
        THEN DivRound(c * 100, 1292)
        ELSE Pow24(DivRound((c + DivRound(55 * FixedOne, 1000)) * 1000, 1055))

\* the weight of green, 0.7152, given to red as well
rgb_to_luminance_red(r, g, b) ==
    7152 * adjust(r) + 7152 * adjust(g) + 722 * adjust(b)

\* the luminance in units of 1/(10000 * FixedOne)
rgb_to_luminance(r, g, b) ==
    2126 * adjust(r) + 7152 * adjust(g) + 722 * adjust(b)

\* 0.05 in the unit of rgb_to_luminance
LumOffset == 500 * FixedOne

\* a str argument goes through hex_to_rgb, a tuple is taken as it is
Resolve(color) == IF color.str THEN hex_to_rgb(color.s) ELSE Return(color.t)

\* rgb_to_luminance(*color): the triple is unpacked into r, g, b
Luminance(color) == rgb_to_luminance(color[1], color[2], color[3])

\* the ratio without max and min: (lum1 + 0.05) / (lum2 + 0.05)
RatioOfUnordered(lum1, lum2) ==
    [num |-> lum1 + LumOffset, den |-> lum2 + LumOffset]

\* lines 34-38: the ratio is returned as the fraction [num, den] it is the
\* quotient of
RatioOf(lum1, lum2) ==
    [num |-> Max(lum1, lum2) + LumOffset, den |-> Min(lum1, lum2) + LumOffset]

\* lines 31-38, on the two resolved arguments
ContrastOf(c1, c2) ==
    IF c1.err \/ c2.err THEN Raise
    ELSE Return(RatioOf(Luminance(c1.val), Luminance(c2.val)))

\* contrast_ratio without lines 28-29: a str color2 reaches rgb_to_luminance,
\* which raises on it
contrast_ratio_first(color1, color2) ==
    ContrastOf(Resolve(color1), IF color2.str THEN Raise ELSE Return(color2.t))

contrast_ratio(color1, color2) == ContrastOf(Resolve(color1), Resolve(color2))

\* ratio >= n/d, for the thresholds 3.0 (3/1) and 4.5 (9/2)
RatioGe(ratio, n, d) == d * ratio.num >= n * ratio.den

\* f"{ratio:.2f}" as the number of hundredths printed: two more digits by long
\* division, the last rounded
Format2(ratio) ==
    LET q == ratio.num \div ratio.den
        r0 == ratio.num % ratio.den
        d1 == (10 * r0) \div ratio.den
        r1 == (10 * r0) % ratio.den
        d2 == (10 * r1) \div ratio.den
        r2 == (10 * r1) % ratio.den
    IN  100 * q + 10 * d1 + d2 + (IF 2 * r2 >= ratio.den THEN 1 ELSE 0)

---------------------------------------------------------------------------
(* The report script (module level, lines 40-147).  A local variable of    *)
(* the script is bound by \E over the one value assigned to it.            *)

NoExit == -1
NoCall == [op |-> "none"]
NoRet == [done |-> FALSE]
\* the result res of a call that has been made
Done(res) == [done |-> TRUE, res |-> res]
\* a verdict a row does not print, and a colour it does not print
NotShown == "-"
NoColour == <<>>

\* the literal colour table, line 41
ColorTable ==
    [normal   |-> <<"#", "2", "7", "a", "e", "6", "0">>,
     degraded |-> <<"#", "e", "6", "7", "e", "2", "2">>,
     fucked   |-> <<"#", "c", "0", "3", "9", "2", "b">>,
     unknown  |-> <<"#", "7", "f", "8", "c", "8", "d">>,
     white    |-> <<"#", "f", "f", "f", "f", "f", "f">>]

white == <<"#", "f", "f", "f", "f", "f", "f">>
white_rgb == <<255, 255, 255>>

\* the list every for loop runs over: (status, key of the colour)
Statuses ==
    <<[status |-> "Normal (Green)", key |-> "normal"],
      [status |-> "Degraded (Orange)", key |-> "degraded"],
      [status |-> "Fucked (Red)", key |-> "fucked"],
      [status |-> "Unknown (Gray)", key |-> "unknown"]>>

\* What an edited table could hold in place of a literal: hex strings that
\* do not parse, and another colour (black, written without the '#').
BadHex == {<<"f", "f">>, <<"x", "y", "z">>}
OtherHex == {<<"0", "0", "0", "0", "0", "0">>}

\* The tables a run may start from: each status colour is its literal or
\* one of the strings above.
Tables ==
    {[ColorTable EXCEPT !.normal = n, !.degraded = d, !.fucked = f, !.unknown = u] :
        n \in {ColorTable.normal} \cup BadHex \cup OtherHex,
        d \in {ColorTable.degraded} \cup BadHex \cup OtherHex,
        f \in {ColorTable.fucked} \cup BadHex \cup OtherHex,
        u \in {ColorTable.unknown} \cup BadHex \cup OtherHex}

\* the large-text verdict taken against 4.5 instead of 3.0
aa_large_45(ratio) == IF RatioGe(ratio, 9, 2) THEN "PASS" ELSE "FAIL"

\* "PASS" if ratio >= 3.0 else "FAIL"
aa_large(ratio) == IF RatioGe(ratio, 3, 1) THEN "PASS" ELSE "FAIL"
\* "PASS" if ratio >= 4.5 else "FAIL"
aa_normal(ratio) == IF RatioGe(ratio, 9, 2) THEN "PASS" ELSE "FAIL"
\* the verdict of a focus row, against 3.0
aa_ui(ratio) == IF RatioGe(ratio, 3, 1) THEN "PASS" ELSE "FAIL"

\* the conditional expression of a card line:
\* PASS (4.5:1) if r >= 4.5 else FAIL (4.5:1) if r < 4.5 else PASS (3:1)
card_verdict(ratio) ==
    IF RatioGe(ratio, 9, 2) THEN [large |-> NotShown, normal |-> "PASS"]
    ELSE IF ~RatioGe(ratio, 9, 2) THEN [large |-> NotShown, normal |-> "FAIL"]
    ELSE [large |-> "PASS", normal |-> NotShown]

\* one printed ratio with its verdicts: shown is what is printed of the ratio
Line(ratio, large, normal) ==
    [ratio |-> ratio, shown |-> Format2(ratio), large |-> large, normal |-> normal]

Row(section, status, bg, card_bg, lines) ==
    [kind |-> "row", section |-> section, label |-> status, bg |-> bg,
     card_bg |-> card_bg, lines |-> lines]

Header(section) == [kind |-> "header", section |-> section]

\* an uncaught exception: the traceback is printed and the interpreter exits with 1
Uncaught ==
    /\ pc' = "failed"
    /\ exit' = 1
    /\ UNCHANGED <<colors, idx, out>>

Printed(row) ==
    /\ out' = Append(out, row)
    /\ idx' = idx + 1
    /\ UNCHANGED <<colors, pc, exit>>

\* lines 54-60: the banner and the header of the first section
Banner ==
    /\ pc = "start"
    /\ out' = out \o <<[kind |-> "banner"], Header("white")>>
    /\ pc' = "white"
    /\ idx' = 1
    /\ UNCHANGED <<colors, exit, callVars>>

\* the white-text loop with the exception swallowed: the row is skipped and
\* the loop goes on
WhiteRowSkip ==
    /\ pc = "white"
    /\ idx <= Len(Statuses)
    /\ \E status \in {Statuses[idx].status}, bg_color \in {colors[Statuses[idx].key]} :
       \E ratio \in {contrast_ratio(Str(white), Str(bg_color))} :
          IF ratio.err
          THEN idx' = idx + 1 /\ UNCHANGED <<colors, pc, out, exit>>
          ELSE Printed(Row("white", status, bg_color, NoColour,
                           <<Line(ratio.val, aa_large(ratio.val), aa_normal(ratio.val))>>))
    /\ UNCHANGED callVars

\* lines 61-71: one iteration of the white-text loop
WhiteRow ==
    /\ pc = "white"
    /\ idx <= Len(Statuses)
    /\ \E status \in {Statuses[idx].status}, bg_color \in {colors[Statuses[idx].key]} :
       \E ratio \in {contrast_ratio(Str(white), Str(bg_color))} :
          IF ratio.err THEN Uncaught
          ELSE Printed(Row("white", status, bg_color, NoColour,
                           <<Line(ratio.val, aa_large(ratio.val), aa_normal(ratio.val))>>))
    /\ UNCHANGED callVars

\* lines 73-86: the header of the muted section, the definition of
\* blend_rgba_on_rgb and of white_rgb
MutedHeader ==
    /\ pc = "white"
    /\ idx > Len(Statuses)
    /\ out' = Append(out, Header("muted"))
    /\ pc' = "muted"
    /\ idx' = 1
    /\ UNCHANGED <<colors, exit, callVars>>

\* lines 87-100: one iteration of the muted-text loop
MutedRow ==
    /\ pc = "muted"
    /\ idx <= Len(Statuses)
    /\ \E status \in {Statuses[idx].status}, bg_hex \in {colors[Statuses[idx].key]} :
       \E bg_rgb \in {hex_to_rgb(bg_hex)} :
          IF bg_rgb.err THEN Uncaught
          ELSE \E effective_text \in {blend_rgba_on_rgb(white_rgb, bg_rgb.val, DoubleOf(75, 100))} :
               \E ratio \in {contrast_ratio(Tup(effective_text), Tup(bg_rgb.val))} :
                  Printed(Row("muted", status, bg_hex, NoColour,
                              <<Line(ratio.val, aa_large(ratio.val), aa_normal(ratio.val))>>))
    /\ UNCHANGED callVars

\* lines 102-106
CardHeader ==
    /\ pc = "muted"
    /\ idx > Len(Statuses)
    /\ out' = Append(out, Header("card"))
    /\ pc' = "card"
    /\ idx' = 1
    /\ UNCHANGED <<colors, exit, callVars>>

\* lines 108-126: one iteration of the card-background loop
CardRow ==
    /\ pc = "card"
    /\ idx <= Len(Statuses)
    /\ \E status \in {Statuses[idx].status}, bg_hex \in {colors[Statuses[idx].key]} :
       \E bg_rgb \in {hex_to_rgb(bg_hex)} :
          IF bg_rgb.err THEN Uncaught
          ELSE \E card_bg \in {blend_rgba_on_rgb(white_rgb, bg_rgb.val, DoubleOf(15, 100))} :
               \E white_ratio \in {contrast_ratio(Tup(white_rgb), Tup(card_bg))},
                  effective_muted \in {blend_rgba_on_rgb(white_rgb, card_bg, DoubleOf(75, 100))} :
               \E muted_ratio \in {contrast_ratio(Tup(effective_muted), Tup(card_bg))} :
                  Printed(Row("card", status, NoColour, card_bg,
                              <<Line(white_ratio.val, card_verdict(white_ratio.val).large,
                                     card_verdict(white_ratio.val).normal),
                                Line(muted_ratio.val, card_verdict(muted_ratio.val).large,
                                     card_verdict(muted_ratio.val).normal)>>))
    /\ UNCHANGED callVars

\* lines 128-131
FocusHeader ==
    /\ pc = "card"
    /\ idx > Len(Statuses)
    /\ out' = Append(out, Header("focus"))
    /\ pc' = "focus"
    /\ idx' = 1
    /\ UNCHANGED <<colors, exit, callVars>>

\* lines 133-143: one iteration of the focus-indicator loop
FocusRow ==
    /\ pc = "focus"
    /\ idx <= Len(Statuses)
    /\ \E status \in {Statuses[idx].status}, bg_hex \in {colors[Statuses[idx].key]} :
       \E bg_rgb \in {hex_to_rgb(bg_hex)} :
          IF bg_rgb.err THEN Uncaught
          ELSE \E outline_color \in {blend_rgba_on_rgb(white_rgb, bg_rgb.val, DoubleOf(6, 10))} :
               \E ratio \in {contrast_ratio(Tup(outline_color), Tup(bg_rgb.val))} :
                  Printed(Row("focus", status, NoColour, NoColour,
                              <<Line(ratio.val, aa_ui(ratio.val), NotShown)>>))
    /\ UNCHANGED callVars

\* lines 145-147, and the normal end of the interpreter
Summary ==
    /\ pc = "focus"
    /\ idx > Len(Statuses)
    /\ out' = Append(out, [kind |-> "summary"])
    /\ pc' = "done"
    /\ exit' = 0
    /\ UNCHANGED <<colors, idx, callVars>>

Init ==
    /\ colors \in Tables
    /\ pc = "start"
    /\ idx = 1
    /\ out = <<>>
    /\ exit = NoExit
    /\ input = NoCall
    /\ ret = NoRet

Next ==
    \/ Banner
    \/ WhiteRow
    \/ MutedHeader
    \/ MutedRow
    \/ CardHeader
    \/ CardRow
    \/ FocusHeader
    \/ FocusRow
    \/ Summary

Spec == Init /\ [][Next]_vars

position == <<pc, idx>>
Positions == {"start", "white", "muted", "card", "focus", "done", "failed"}
Terminated == pc \in {"done", "failed"}

\* The script moves on: to another position, or to another iteration.  Every
\* step of Next does, and a script that has not terminated can.
Progress ==
    /\ ~Terminated
    /\ pc' \in Positions
    /\ idx' \in 1..(Len(Statuses) + 1)
    /\ position' # position

\* The interpreter runs the script statement after statement: a script that
\* has a statement to run does run it.
FairSpec == Spec /\ WF_position(Progress)

---------------------------------------------------------------------------
(* The functions called on their own: one call, its arguments drawn from   *)
(* the sets below, and its result.                                         *)

\* the hex digits and the other characters the strings are made of
BodyDigits == {"2", "f"}
OddChars == {"C", "g", "-", " ", "#"}

Hashes(k) == [i \in 1..k |-> "#"]

\* strings of digits, and the same with one character replaced by an odd one
Bodies ==
    LET plain == UNION {[1..n -> BodyDigits] : n \in 0..MaxLen}
        odd(b) == {[b EXCEPT ![i] = ch] : i \in DOMAIN b, ch \in OddChars}
    IN  plain \cup UNION {odd(b) : b \in plain}

HexStrings == {Hashes(k) \o b : k \in 0..MaxHashes, b \in Bodies}

BlendChannels == {0, 3, 255}
BlendColors == {<<r, g, b>> : r \in BlendChannels, g \in BlendChannels, b \in BlendChannels}

ContrastChannels == {0, 10, 11, 128, 255}
ContrastColors ==
    {<<r, g, b>> : r \in ContrastChannels, g \in ContrastChannels, b \in ContrastChannels}
ContrastStrings ==
    {white, ColorTable.normal, <<"0", "0", "0", "0", "0", "0">>,
     <<"8", "0", "0", "A", "0", "b">>, <<"x", "y", "z">>}
ContrastArgs == {Tup(c) : c \in ContrastColors} \cup {Str(h) : h \in ContrastStrings}

HexCalls == {[op |-> "hex_to_rgb", args |-> <<h>>] : h \in HexStrings}
BlendCalls ==
    {[op |-> "blend_rgba_on_rgb", args |-> <<fg, bg, n>>] :
        fg \in BlendColors, bg \in BlendColors, n \in 0..AlphaDen}
ContrastCalls ==
    {[op |-> "contrast_ratio", args |-> <<a, b>>] : a \in ContrastArgs, b \in ContrastArgs}

\* the float of the n-th alpha
Alpha(n) == DoubleOf(n, AlphaDen)

CallHexToRgb ==
    /\ input.op = "hex_to_rgb"
    /\ ~ret.done
    /\ ret' = Done(hex_to_rgb(input.args[1]))
    /\ UNCHANGED <<input, scriptVars>>

CallBlend ==
    /\ input.op = "blend_rgba_on_rgb"
    /\ ~ret.done
    /\ ret' = Done(Return(blend_rgba_on_rgb(input.args[1], input.args[2], Alpha(input.args[3]))))
    /\ UNCHANGED <<input, scriptVars>>

CallContrastRatio ==
    /\ input.op = "contrast_ratio"
    /\ ~ret.done
    /\ ret' = Done(contrast_ratio(input.args[1], input.args[2]))
    /\ UNCHANGED <<input, scriptVars>>

FnInit ==
    /\ colors = ColorTable
    /\ pc = "call"
    /\ idx = 1
    /\ out = <<>>
    /\ exit = NoExit
    /\ \/ input \in HexCalls
       \/ input \in BlendCalls
       \/ input \in ContrastCalls
    /\ ret = NoRet

FnNext ==
    \/ CallHexToRgb
    \/ CallBlend
    \/ CallContrastRatio

FnSpec == FnInit /\ [][FnNext]_vars

---------------------------------------------------------------------------
(* Properties of hex_to_rgb. *)

\* after stripping one optional leading '#', exactly 6 hexadecimal digits
StripOne(s) == IF s # <<>> /\ Head(s) = "#" THEN Tail(s) ELSE s
WellFormed(s) == Len(StripOne(s)) = 6 /\ \A k \in 1..6 : IsHexDigit(StripOne(s)[k])

HexCalled == input.op = "hex_to_rgb" /\ ret.done

\* the base-16 value of the two characters of h at positions i, i+1
Byte(h, i) == 16 * DigitVal(h[i]) + DigitVal(h[i + 1])

\* C1: hex_to_rgb raises for every string that, after stripping one optional
\* leading '#', is not exactly 6 hexadecimal digits; no such string yields a
\* colour triple.
C1_MalformedRaises ==
    (HexCalled /\ ~WellFormed(input.args[1])) => ret.res.err

\* C8: for a string of exactly 6 hex digits, with or without a leading '#',
\* hex_to_rgb returns the base-16 values of the character groups 0-1, 2-3
\* and 4-5, each in 0..255, and the '#' makes no difference to the result.
C8_ParsesGroups ==
    (HexCalled /\ WellFormed(input.args[1])) =>
        LET h == StripOne(input.args[1])
        IN  /\ ret.res = Return(<<Byte(h, 1), Byte(h, 3), Byte(h, 5)>>)
            /\ \A c \in 1..3 : ret.res.val[c] \in 0..255
            /\ ret.res = hex_to_rgb(h)
            /\ ret.res = hex_to_rgb(<<"#">> \o h)

\* a call on "#2fCf2f" has returned (47, 207, 47)
C8_Witness ==
    /\ HexCalled
    /\ input.args[1] = <<"#", "2", "f", "C", "f", "2", "f">>
    /\ ret.res = Return(<<47, 207, 47>>)

---------------------------------------------------------------------------
(* Properties of blend_rgba_on_rgb. *)

BlendCalled == input.op = "blend_rgba_on_rgb" /\ ret.done

\* C4: each channel of the result is the float fg*alpha + bg*(1 - alpha) with
\* its fraction cut off (result <= float < result + 1), not the nearest
\* integer; alpha = 0 returns bg and alpha = 1 returns fg.
C4_BlendTruncates ==
    BlendCalled =>
        LET fg == input.args[1]
            bg == input.args[2]
            n == input.args[3]
        IN  /\ \A c \in 1..3 :
                 /\ FLe(FromInt(ret.res.val[c]), blend_sum(fg[c], bg[c], Alpha(n)))
                 /\ ~FLe(FromInt(ret.res.val[c] + 1), blend_sum(fg[c], bg[c], Alpha(n)))
            /\ n = 0 => ret.res.val = bg
            /\ n = AlphaDen => ret.res.val = fg

\* white over black at alpha = 0.05: 12.75 is cut to 12, not rounded to 13
C4_Witness ==
    /\ BlendCalled
    /\ input.args = <<<<255, 255, 255>>, <<0, 0, 0>>, 1>>
    /\ ret.res.val = <<12, 12, 12>>

\* C10: every channel of a blend is an integer between the lower and the
\* higher of the two channels blended, hence in 0..255.
C10_BlendBetween ==
    BlendCalled =>
        \A c \in 1..3 :
            /\ ret.res.val[c] >= Min(input.args[1][c], input.args[2][c])
            /\ ret.res.val[c] <= Max(input.args[1][c], input.args[2][c])
            /\ ret.res.val[c] \in 0..255

---------------------------------------------------------------------------
(* Properties of contrast_ratio. *)

ContrastCalled == input.op = "contrast_ratio" /\ ret.done

\* C5: the ratio of two colours is in [1, 21]: num/den >= 1 and num/den <= 21
\* (num <= 21 * den is written without the product).
C5_RatioInRange ==
    (ContrastCalled /\ ~ret.res.err) =>
        /\ ret.res.val.num >= ret.res.val.den
        /\ (ret.res.val.num + 20) \div 21 <= ret.res.val.den

\* black against white has been computed, and is exactly 21
C5_Witness ==
    /\ ContrastCalled
    /\ input.args = <<Tup(<<0, 0, 0>>), Tup(<<255, 255, 255>>)>>
    /\ ret.res.val.num = 21 * ret.res.val.den

\* C6: contrast_ratio(a, b) = contrast_ratio(b, a).
C6_Symmetric ==
    ContrastCalled => ret.res = contrast_ratio(input.args[2], input.args[1])

\* a darker colour has been given first, a lighter one second
C6_Witness ==
    /\ ContrastCalled
    /\ input.args = <<Tup(<<0, 10, 128>>), Tup(<<255, 128, 11>>)>>
    /\ ret.res.val.num > ret.res.val.den

\* C7: a valid hex string and the triple it parses to are interchangeable in
\* either argument, and two triples are used as they are.
C7_HexOrTriple ==
    ContrastCalled =>
        LET a == input.args[1]
            b == input.args[2]
        IN  /\ (a.str /\ WellFormed(a.s)) =>
                 ret.res = contrast_ratio(Tup(hex_to_rgb(a.s).val), b)
            /\ (b.str /\ WellFormed(b.s)) =>
                 ret.res = contrast_ratio(a, Tup(hex_to_rgb(b.s).val))
            /\ (~a.str /\ ~b.str) =>
                 ret.res = Return(RatioOf(Luminance(a.t), Luminance(b.t)))

\* a triple against the string "#27ae60" has been computed
C7_Witness ==
    /\ ContrastCalled
    /\ input.args = <<Tup(<<255, 255, 255>>), Str(ColorTable.normal)>>
    /\ ~ret.res.err
    /\ Format2(ret.res.val) = 287

---------------------------------------------------------------------------
(* Properties of the report. *)

Rows == {i \in 1..Len(out) : out[i].kind = "row"}
Labels == {Statuses[k].status : k \in 1..Len(Statuses)}
IsVerdict(v) == v \in {"PASS", "FAIL"}

\* the ratio is printed with two decimals: a number of hundredths in
\* [1.00, 21.00] whose integer part is that of the ratio, or one more
ShowsRatio(line) ==
    /\ line.shown \in 100..2100
    /\ (line.shown \div 100) - (line.ratio.num \div line.ratio.den) \in {0, 1}

\* a PASS/FAIL verdict against 3:1, PASS exactly when ratio >= 3
LargeVerdict(line) ==
    IsVerdict(line.large) /\ (line.large = "PASS" <=> RatioGe(line.ratio, 3, 1))
\* a PASS/FAIL verdict against 4.5:1, PASS exactly when ratio >= 4.5
NormalVerdict(line) ==
    IsVerdict(line.normal) /\ (line.normal = "PASS" <=> RatioGe(line.ratio, 9, 2))

\* C2 as stated: every row of every section shows a label, a background
\* colour, the ratio to two decimals, and a verdict against each of the two
\* thresholds.
C2_Original ==
    \A i \in Rows :
        /\ out[i].label \in Labels
        /\ out[i].bg # NoColour \/ out[i].card_bg # NoColour
        /\ \A j \in 1..Len(out[i].lines) :
             /\ ShowsRatio(out[i].lines[j])
             /\ LargeVerdict(out[i].lines[j])
             /\ NormalVerdict(out[i].lines[j])

\* C2 as amended: a white-text or muted-text row shows the label, the
\* background colour, the ratio and both verdicts; a card row shows the
\* label, the blended card background and two ratios, each with a verdict
\* against 4.5:1 only; a focus row shows the label and the ratio with a
\* verdict against 3:1 only.  Every verdict shown is PASS exactly when the
\* ratio is at least its threshold.
C2_RowsShowVerdicts ==
    \A i \in Rows :
        /\ out[i].label \in Labels
        /\ \A j \in 1..Len(out[i].lines) : ShowsRatio(out[i].lines[j])
        /\ out[i].section \in {"white", "muted"} =>
             /\ out[i].bg # NoColour
             /\ Len(out[i].lines) = 1
             /\ LargeVerdict(out[i].lines[1])
             /\ NormalVerdict(out[i].lines[1])
        /\ out[i].section = "card" =>
             /\ out[i].bg = NoColour /\ out[i].card_bg # NoColour
             /\ Len(out[i].lines) = 2
             /\ \A j \in 1..2 :
                  out[i].lines[j].large = NotShown /\ NormalVerdict(out[i].lines[j])
        /\ out[i].section = "focus" =>
             /\ out[i].bg = NoColour /\ out[i].card_bg = NoColour
             /\ Len(out[i].lines) = 1
             /\ out[i].lines[1].normal = NotShown /\ LargeVerdict(out[i].lines[1])

\* a complete report with a white-text row that passes 3:1 and fails 4.5:1
\* and a card row that passes 4.5:1
C2_Witness ==
    /\ pc = "done"
    /\ \E i \in Rows :
         /\ out[i].section = "white"
         /\ out[i].lines[1].large = "PASS" /\ out[i].lines[1].normal = "FAIL"
    /\ \E i \in Rows : out[i].section = "card" /\ out[i].lines[1].normal = "PASS"

\* the row of white text on the literal Normal (Green) background
IsGreenRow(i) ==
    /\ out[i].kind = "row"
    /\ out[i].section = "white"
    /\ out[i].label = "Normal (Green)"
    /\ out[i].bg = ColorTable.normal

\* C3 as stated: that row shows a ratio of about 2.19 (within 0.05) and FAIL
\* for large and for normal text.
C3_Original ==
    \A i \in 1..Len(out) :
        IsGreenRow(i) =>
            /\ out[i].lines[1].shown \in 214..224
            /\ out[i].lines[1].large = "FAIL"
            /\ out[i].lines[1].normal = "FAIL"

\* C3 as amended: that row shows 2.87, which is below 3, and FAIL for large
\* and for normal text.
C3_WhiteOnGreenFails ==
    \A i \in 1..Len(out) :
        IsGreenRow(i) =>
            /\ out[i].lines[1].shown = 287
            /\ ~RatioGe(out[i].lines[1].ratio, 3, 1)
            /\ out[i].lines[1].large = "FAIL"
            /\ out[i].lines[1].normal = "FAIL"

\* the row has been printed, first of the report
C3_Witness == Len(out) >= 3 /\ IsGreenRow(3)

---------------------------------------------------------------------------
(* Termination of the script. *)

Parses(k) == ~hex_to_rgb(colors[Statuses[k].key]).err
AllParse == \A k \in 1..Len(Statuses) : Parses(k)
\* the first status whose colour does not parse
FirstBad == CHOOSE k \in 1..Len(Statuses) : ~Parses(k) /\ \A j \in 1..(k - 1) : Parses(j)

Sections == <<"white", "muted", "card", "focus">>

\* the banner, then for each section in order its header and one row per
\* status in order, then the summary
FullReport ==
    /\ Len(out) = 2 + 5 * Len(Sections)
    /\ out[1].kind = "banner"
    /\ out[Len(out)].kind = "summary"
    /\ \A s \in 1..Len(Sections) :
         /\ out[5 * s - 3] = Header(Sections[s])
         /\ \A k \in 1..Len(Statuses) :
              /\ out[5 * s - 3 + k].kind = "row"
              /\ out[5 * s - 3 + k].section = Sections[s]
              /\ out[5 * s - 3 + k].label = Statuses[k].status

\* the banner, the first header and the white-text rows of the statuses
\* before the first one that does not parse
ReportCutAtFirstBad ==
    /\ Len(out) = 2 + (FirstBad - 1)
    /\ \A k \in 1..(FirstBad - 1) :
         /\ out[2 + k].kind = "row"
         /\ out[2 + k].section = "white"
         /\ out[2 + k].label = Statuses[k].status

\* C9: every run terminates; if every colour parses it prints the four
\* sections in order, four rows each, and exits with 0; if one does not, the
\* run ends there with a nonzero exit code and prints nothing more.
C9_Terminates ==
    /\ <>Terminated
    /\ [](pc = "done" => (AllParse /\ exit = 0 /\ FullReport))
    /\ [](pc = "failed" => (~AllParse /\ exit \notin {0, NoExit} /\ ReportCutAtFirstBad))
    /\ [](~Terminated => exit = NoExit)
    /\ [][Terminated => UNCHANGED <<out, exit, pc>>]_vars

\* a run has failed at the third status, after two rows
C9_Witness == pc = "failed" /\ Len(out) = 4 /\ exit = 1

===========================================================================
